---- MODULE Spec2Model ----
(***************************************************************************)
(* Connection/profile management of the AWS Toolkit: the ProfileStore      *)
(* (CRUD over the persisted id -> StoredProfile mapping with de-duplicated *)
(* audit events), the unmanaged-profile sync (loadIamProfilesIntoStore)    *)
(* and the linked-profile discovery generator                              *)
(* (loadLinkedProfilesIntoStore).                                          *)
(*                                                                         *)
(* A profile is a record whose DOMAIN is the set of fields the JavaScript  *)
(* object carries, so that object spread ({...a, ...b}) is b @@ a.         *)
(***************************************************************************)
EXTENDS Integers, Sequences, FiniteSets, TLC

VARIABLES
    data,            \* memento key 'auth.profiles': id -> StoredProfile
    currentProfileId, \* memento key 'auth.currentProfileId'
    calls,           \* store calls in flight whose callers do not serialize them
    prevGetProfile,  \* ProfileStore._prevGetProfile
    providers,       \* CredentialsProviderManager: provider id -> credentialTypeId
    lastWarned,      \* argument of the last warnOnce call that was shown
    run,             \* the loadLinkedProfilesIntoStore generator
    prev,            \* history: the last fully drained discovery run
    lastSucceeded,   \* history: id and connectionState of the last 'Succeeded' getProfile event
    emitted,         \* history: audit events emitted by the last step
    last,            \* history: the last operation, its inputs and outcome
    ops,             \* number of operations started (store operations, syncs, runs)
    node,            \* an AppRunnerServiceNode and the calls it made on its parent
    cache            \* StateMachineGraphCache: recorded URL and cached file of one asset

vars == <<data, currentProfileId, calls, prevGetProfile, providers, lastWarned, run,
          prev, lastSucceeded, emitted, last, ops, node, cache>>

-----------------------------------------------------------------------------
(* Bounds *)

MaxOps == 2
MaxPairs == 2
MaxScopeLen == 2

-----------------------------------------------------------------------------
(* Values *)

None == "<none>"

scopesSsoAccountAccess == <<"sso:account:access">>

SourceId == "sso:1"
\* the accounts in the order listAccounts delivers them, and the role names
AccountOrder == <<"111", "222">>
Roles == {"Admin"}

\* variant: role and account are joined without a separator
LinkedNameNoSeparator(roleName, accountId) == roleName \o accountId

\* variant: account and role are swapped
LinkedNameSwapped(roleName, accountId) == accountId \o "-" \o roleName

\* `${info.roleName}-${info.accountId}`
LinkedName(roleName, accountId) == roleName \o "-" \o accountId

\* `sso:${sourceId}#${name}`
LinkedId(sourceId, roleName, accountId) ==
    "sso:" \o sourceId \o "#" \o LinkedName(roleName, accountId)

\* the profile literal handed to addProfile by loadLinkedProfilesIntoStore
LinkedProfile(sourceId, roleName, accountId) ==
    [name |-> LinkedName(roleName, accountId), type |-> "iam", subtype |-> "linked",
     ssoSession |-> sourceId, ssoRoleName |-> roleName, ssoAccountId |-> accountId]

\* the profile literal handed to addProfile by loadIamProfilesIntoStore
UnknownProfile(credentialTypeId) ==
    [type |-> "iam", subtype |-> "unknown", name |-> credentialTypeId]

SsoPlain == [type |-> "sso", startUrl |-> "https://x", ssoRegion |-> "us-east-1"]
SsoScoped == [scopes |-> <<"sso:account:access", "codewhisperer:completions">>] @@ SsoPlain

\* ids and profiles the callers of the store pass in
Ids == {SourceId, "profile:p1", LinkedId(SourceId, "Admin", "111")}

ProfileInputs ==
    {SsoPlain, UnknownProfile("profile"), LinkedProfile(SourceId, "Admin", "111")}

MetadataInputs ==
    { [connectionState |-> "valid"],
      [connectionState |-> "invalid", label |-> "L"] }

\* what getCredentialProviderNames returns at the start: nothing, a shared
\* credentials profile, or that profile and the provider registered for a
\* linked profile; each id is mapped to its credentialTypeId
ProviderEnumerations ==
    { <<>>,
      ("profile:p1" :> "profile"),
      ("profile:p1" :> "profile") @@ (LinkedId(SourceId, "Admin", "111") :> "sso") }

-----------------------------------------------------------------------------
(* ProfileStore *)

\* getProfile(id) !== undefined
Stored(d, id) == id \in DOMAIN d

\* the profile fields of a stored record (everything but metadata)
Body(p) == [f \in DOMAIN p \ {"metadata"} |-> p[f]]

\* variant: a new record starts as valid
initMetadataValid(profile) ==
    [metadata |-> [connectionState |-> "valid"]] @@ profile

initMetadata(profile) ==
    [metadata |-> [connectionState |-> "unauthenticated"]] @@ profile

\* variant: the mapping is not written back
putProfileLost(d, id, profile) == d

\* variant: the new record is merged into the record already stored under id
putProfileMerged(d, id, profile) ==
    IF Stored(d, id) THEN (id :> (profile @@ d[id])) @@ d ELSE (id :> profile) @@ d

\* updateData({ ...getData(), [id]: profile })
putProfile(d, id, profile) == (id :> profile) @@ d

\* variant: a missing id makes the default (empty) mapping be written back
removeProfileOrReset(d, id) ==
    IF Stored(d, id) THEN [i \in DOMAIN d \ {id} |-> d[i]] ELSE <<>>

\* delete data[id]; updateData(data)
removeProfile(d, id) == [i \in DOMAIN d \ {id} |-> d[i]]

Event(action, id, result) == [action |-> action, id |-> id, result |-> result]

\* telemetry.auth_modifyConnection.run(fn): the span emits one event with the
\* recorded fields when fn exits, on every exit path
spanRun(action, id, result) == <<Event(action, id, result)>>

\* variant: the de-dup compares the id only
getProfileOrThrowIdOnly(d, pg, id) ==
    IF ~Stored(d, id)
    THEN [ok |-> FALSE, profile |-> None,
          events |-> <<Event("getProfile", id, "Failed")>>, prevGet |-> pg]
    ELSE LET cs == d[id].metadata.connectionState
             cur == [id |-> id, connectionState |-> cs]
         IN  IF pg.id # id
             THEN [ok |-> TRUE, profile |-> d[id],
                   events |-> <<[connectionState |-> cs]
                                  @@ Event("getProfile", id, "Succeeded")>>,
                   prevGet |-> cur]
             ELSE [ok |-> TRUE, profile |-> d[id], events |-> <<>>, prevGet |-> pg]

\* variant: a miss is de-duplicated like a hit, through the same cache
getProfileOrThrowDedupMiss(d, pg, id) ==
    LET cs == IF Stored(d, id) THEN d[id].metadata.connectionState ELSE None
        cur == [id |-> id, connectionState |-> cs]
        result == IF Stored(d, id) THEN "Succeeded" ELSE "Failed"
    IN  [ok |-> Stored(d, id),
         profile |-> IF Stored(d, id) THEN d[id] ELSE [type |-> None],
         events |-> IF pg # cur
                    THEN <<IF Stored(d, id)
                           THEN [connectionState |-> cs] @@ Event("getProfile", id, result)
                           ELSE Event("getProfile", id, result)>>
                    ELSE <<>>,
         prevGet |-> cur]

\* getProfileOrThrow as a function of the store state: the result, the
\* events emitted and the new value of _prevGetProfile
getProfileOrThrow(d, pg, id) ==
    IF ~Stored(d, id)
    THEN [ok |-> FALSE, profile |-> None,
          events |-> <<Event("getProfile", id, "Failed")>>, prevGet |-> pg]
    ELSE LET cs == d[id].metadata.connectionState
             cur == [id |-> id, connectionState |-> cs]
         IN  IF pg # cur
             THEN [ok |-> TRUE, profile |-> d[id],
                   events |-> <<[connectionState |-> cs]
                                  @@ Event("getProfile", id, "Succeeded")>>,
                   prevGet |-> cur]
             ELSE [ok |-> TRUE, profile |-> d[id], events |-> <<>>, prevGet |-> pg]

NoPrevGet == [id |-> None, connectionState |-> None]

\* the (id, connectionState) of the last 'Succeeded' getProfile event, given
\* the events of a step and the pair before it
RECURSIVE LastSucceededAfter(_, _)
LastSucceededAfter(events, before) ==
    IF events = <<>> THEN before
    ELSE LET e == events[Len(events)] IN
         IF e.action = "getProfile" /\ e.result = "Succeeded"
         THEN [id |-> e.id, connectionState |-> e.connectionState]
         ELSE LastSucceededAfter(SubSeq(events, 1, Len(events) - 1), before)

IdleRun == [pc |-> "idle"]
NoPrev == [src |-> None]

\* two callers, none of them inside a store call
Callers == {1, 2}

NoCalls == [c \in Callers |-> [pc |-> "idle"]]

Quiet == run.pc # "suspended"

\* bookkeeping shared by the store operations: they run between discovery
\* runs, and the record of a finished run is dropped
StoreOp(d2, events) ==
    /\ Quiet
    /\ ops < MaxOps
    /\ ops' = ops + 1
    /\ run' = IdleRun
    /\ prev' = IF d2 = data THEN prev ELSE NoPrev
    /\ emitted' = events
    /\ lastSucceeded' = LastSucceededAfter(events, lastSucceeded)
    /\ UNCHANGED <<lastWarned, currentProfileId, calls, node, cache>>

GetProfileOrThrow(id) ==
    LET g == getProfileOrThrow(data, prevGetProfile, id) IN
    /\ StoreOp(data, g.events)
    /\ data' = data
    /\ prevGetProfile' = g.prevGet
    /\ last' = [op |-> "getProfileOrThrow", id |-> id,
                result |-> IF g.ok THEN "ok" ELSE "ProfileNotFound"]
    /\ UNCHANGED providers

AddProfile(id, profile) ==
    LET newProfile == initMetadata(profile) IN
    /\ StoreOp(putProfile(data, id, newProfile), spanRun("addProfile", id, "Succeeded"))
    /\ data' = putProfile(data, id, newProfile)
    /\ last' = [op |-> "addProfile", id |-> id, profile |-> profile, result |-> "ok",
                existed |-> Stored(data, id),
                oldMetadata |-> IF Stored(data, id) THEN data[id].metadata ELSE <<>>]
    /\ UNCHANGED <<prevGetProfile, providers>>

\* variant: the type check is missing
typeMismatchNever(oldProfile, profile) == FALSE

\* variant: the type check is inverted
typeMismatchInverted(oldProfile, profile) == oldProfile.type = profile.type

\* oldProfile.type !== profile.type
typeMismatch(oldProfile, profile) == oldProfile.type # profile.type

\* variant: the spread order is reversed
mergeProfileReversed(oldProfile, profile) == oldProfile @@ profile

\* { ...oldProfile, ...profile }
mergeProfile(oldProfile, profile) == profile @@ oldProfile

\* variant: the new metadata replaces the old metadata
mergeMetadataReplacing(profile, metadata) == [metadata |-> metadata] @@ profile

\* { ...profile, metadata: { ...profile.metadata, ...metadata } }
mergeMetadata(profile, metadata) ==
    [metadata |-> metadata @@ profile.metadata] @@ profile

\* variant: an id that is not stored is created
UpdateProfileUpsert(id, profile) ==
    LET g == getProfileOrThrow(data, prevGetProfile, id)
        mismatch == g.ok /\ typeMismatch(g.profile, profile)
        result == IF mismatch THEN "TypeMismatch" ELSE "ok"
        d2 == IF ~g.ok THEN putProfile(data, id, initMetadata(profile))
              ELSE IF mismatch THEN data
              ELSE putProfile(data, id, mergeProfile(g.profile, profile))
        events == g.events \o
          spanRun("updateProfile", id, IF result = "ok" THEN "Succeeded" ELSE "Failed")
    IN
    /\ StoreOp(d2, events)
    /\ data' = d2
    /\ prevGetProfile' = g.prevGet
    /\ last' = [op |-> "updateProfile", id |-> id, profile |-> profile, result |-> result]
    /\ UNCHANGED providers

UpdateProfile(id, profile) ==
    LET g == getProfileOrThrow(data, prevGetProfile, id)
        mismatch == g.ok /\ typeMismatch(g.profile, profile)
        result == IF ~g.ok THEN "ProfileNotFound"
                  ELSE IF mismatch THEN "TypeMismatch" ELSE "ok"
        d2 == IF result = "ok" THEN putProfile(data, id, mergeProfile(g.profile, profile))
              ELSE data
        events == g.events \o
          spanRun("updateProfile", id, IF result = "ok" THEN "Succeeded" ELSE "Failed")
    IN
    /\ StoreOp(d2, events)
    /\ data' = d2
    /\ prevGetProfile' = g.prevGet
    /\ last' = [op |-> "updateProfile", id |-> id, profile |-> profile, result |-> result]
    /\ UNCHANGED providers

UpdateMetadata(id, metadata) ==
    LET g == getProfileOrThrow(data, prevGetProfile, id)
        d2 == IF g.ok
              THEN putProfile(data, id, mergeMetadata(g.profile, metadata))
              ELSE data
    IN
    /\ StoreOp(d2, g.events)
    /\ data' = d2
    /\ prevGetProfile' = g.prevGet
    /\ last' = [op |-> "updateMetadata", id |-> id, metadata |-> metadata,
                result |-> IF g.ok THEN "ok" ELSE "ProfileNotFound"]
    /\ UNCHANGED providers

DeleteProfile(id) ==
    /\ StoreOp(removeProfile(data, id), spanRun("deleteProfile", id, "Succeeded"))
    /\ data' = removeProfile(data, id)
    /\ last' = [op |-> "deleteProfile", id |-> id, existed |-> Stored(data, id),
                result |-> "ok"]
    /\ UNCHANGED <<prevGetProfile, providers>>

-----------------------------------------------------------------------------
(* loadIamProfilesIntoStore *)

\* a set of ids as a sequence, in the order of Object.entries, on which
\* callers must not depend
RECURSIVE SetToSeq(_)
SetToSeq(S) ==
    IF S = {} THEN <<>>
    ELSE LET x == CHOOSE y \in S : TRUE IN <<x>> \o SetToSeq(S \ {x})

isLinked(p) == p.type = "iam" /\ p.subtype = "linked"

\* variant: only a missing source makes an orphan
isOrphanMissingOnly(d, p) == isLinked(p) /\ ~Stored(d, p.ssoSession)

\* a linked profile whose source is missing or is not an sso profile
isOrphan(d, p) ==
    /\ isLinked(p)
    /\ \/ ~Stored(d, p.ssoSession)
       \/ d[p.ssoSession].type # "sso"

\* variant: only orphans are deleted
syncDeletesOrphansOnly(d, prov) ==
    { id \in DOMAIN d : d[id].type = "iam" /\ isOrphan(d, d[id]) }

\* ids the first loop of loadIamProfilesIntoStore deletes
syncDeletes(d, prov) ==
    { id \in DOMAIN d :
        /\ d[id].type = "iam"
        /\ IF d[id].subtype = "linked" THEN isOrphan(d, d[id])
           ELSE id \notin DOMAIN prov }

startsWithSso(id) == Len(id) >= 4 /\ SubSeq(id, 1, 4) = "sso:"

\* ids the second loop of loadIamProfilesIntoStore adds, d being the store
\* after the first loop and prov the enumeration taken at the start
syncAdds(d, prov) == { id \in DOMAIN prov : ~Stored(d, id) /\ ~startsWithSso(id) }

LoadIamProfilesIntoStore ==
    LET dels == syncDeletes(data, providers)
        d1 == [i \in DOMAIN data \ dels |-> data[i]]
        removed == { id \in dels : data[id].subtype = "linked" }
        adds == syncAdds(d1, providers)
        d2 == [i \in DOMAIN d1 \cup adds |->
                 IF i \in adds THEN initMetadata(UnknownProfile(providers[i])) ELSE d1[i]]
        events == [k \in 1..Cardinality(dels) |->
                      Event("deleteProfile", SetToSeq(dels)[k], "Succeeded")]
                  \o [k \in 1..Cardinality(adds) |->
                      Event("addProfile", SetToSeq(adds)[k], "Succeeded")]
    IN
    /\ StoreOp(d2, events)
    /\ data' = d2
    /\ providers' = [i \in DOMAIN providers \ removed |-> providers[i]]
    /\ last' = [op |-> "loadIamProfilesIntoStore", deleted |-> dels, removed |-> removed,
                added |-> adds, enumeration |-> providers, result |-> "ok"]
    /\ UNCHANGED prevGetProfile

-----------------------------------------------------------------------------
(* loadLinkedProfilesIntoStore *)

\* What the SsoClient delivers in one run: the accounts listAccounts yields,
\* each with the roles listAccountRoles yields for it, and how the listing
\* ends: normally, with listAccounts throwing after the listed accounts, or
\* with listAccountRoles throwing after the listed roles of the last account.
RoleSeqs == UNION { [1..n -> Roles] : n \in 0..MaxPairs }

AccountSeqs == { SubSeq(AccountOrder, 1, n) : n \in 0..Len(AccountOrder) }

RECURSIVE SumLen(_, _)
SumLen(rs, n) == IF n = 0 THEN 0 ELSE Len(rs[n]) + SumLen(rs, n - 1)

Catalogs ==
    { [accts |-> [i \in 1..Len(as) |-> [accountId |-> as[i], roles |-> rs[i]]],
       fail |-> f] :
        as \in AccountSeqs, rs \in [1..Len(AccountOrder) -> RoleSeqs],
        f \in {"none", "listAccounts", "listAccountRoles"} }

CatalogOk(c) ==
    /\ SumLen([i \in 1..Len(c.accts) |-> c.accts[i].roles], Len(c.accts)) <= MaxPairs
    /\ c.fail = "listAccountRoles" => Len(c.accts) > 0

\* the flattened stream: an account event when the map callback runs for an
\* account, then one role event per role of that account
RECURSIVE Flatten(_, _)
Flatten(accts, i) ==
    IF i > Len(accts) THEN <<>>
    ELSE <<[kind |-> "account", accountId |-> accts[i].accountId]>>
         \o [j \in 1..Len(accts[i].roles) |->
               [kind |-> "role", accountId |-> accts[i].accountId,
                roleName |-> accts[i].roles[j]]]
         \o Flatten(accts, i + 1)

\* variant: a profile without scopes counts as having other scopes
hasOtherScopesOrNone(ssoProfile) ==
    ("scopes" \in DOMAIN ssoProfile)
    => \E k \in 1..Len(ssoProfile.scopes) :
          \A j \in 1..Len(scopesSsoAccountAccess) :
              ssoProfile.scopes[k] # scopesSsoAccountAccess[j]

\* Does ssoProfile have scopes other than "sso:account:access"?
hasOtherScopes(ssoProfile) ==
    /\ "scopes" \in DOMAIN ssoProfile
    /\ \E k \in 1..Len(ssoProfile.scopes) :
          \A j \in 1..Len(scopesSsoAccountAccess) :
              ssoProfile.scopes[k] # scopesSsoAccountAccess[j]

warnMessage(ssoProfile) ==
    "IAM Identity Center (" \o ssoProfile.startUrl \o ") returned no roles."

\* variant: the found test is inverted
staleIdsInverted(d, sourceId, found) ==
    { id \in DOMAIN d :
        /\ isLinked(d[id])
        /\ d[id].ssoSession = sourceId
        /\ id \in found }

\* variant: the found test is missing
staleIdsIgnoringFound(d, sourceId, found) ==
    { id \in DOMAIN d : isLinked(d[id]) /\ d[id].ssoSession = sourceId }

\* variant: the session test is missing
staleIdsAnySession(d, sourceId, found) ==
    { id \in DOMAIN d : isLinked(d[id]) /\ id \notin found }

\* ids the clean-up loop deletes
staleIds(d, sourceId, found) ==
    { id \in DOMAIN d :
        /\ isLinked(d[id])
        /\ d[id].ssoSession = sourceId
        /\ id \notin found }

\* the code after the for-await loop: zero-result warning, then clean-up
finish(g) ==
    LET warn == ~hasOtherScopes(g.ssoProfile) /\ (g.accounts = {} \/ g.found = {})
        msg == warnMessage(g.ssoProfile)
        stale == staleIds(g.data, g.src, g.found)
    IN [g EXCEPT
          !.pc = "done",
          !.warned = warn,
          !.shown = warn /\ g.lastWarned # msg,
          !.lastWarned = IF warn THEN msg ELSE g.lastWarned,
          !.deleted = stale,
          !.data = [i \in DOMAIN g.data \ stale |-> g.data[i]],
          !.events = g.events \o
              [k \in 1..Cardinality(stale) |->
                  Event("deleteProfile", SetToSeq(stale)[k], "Succeeded")]]

\* variant: the presence check is missing
alreadyPresentNever(d, id) == FALSE

\* store.getProfile(id) !== undefined: the derived id is already a key
alreadyPresent(d, id) == Stored(d, id)

\* variant: no listing failure is caught
streamThrowsOnAnyFailure(cat) == cat.fail # "none"

\* the stream throws when listAccountRoles throws; listAccounts has a catch
\* that ends the stream instead
streamThrows(cat) == cat.fail = "listAccountRoles"

\* variant: the clean-up runs before each yield, over what was found so far
yieldProfileAfterCleanup(g, id, info) ==
    LET stale == staleIds(g.data, g.src, g.found)
        d1 == [i \in DOMAIN g.data \ stale |-> g.data[i]]
    IN [g EXCEPT
          !.deleted = stale,
          !.data = putProfile(d1, id,
                      initMetadata(LinkedProfile(g.src, info.roleName, info.accountId))),
          !.events = g.events
              \o [k \in 1..Cardinality(stale) |->
                     Event("deleteProfile", SetToSeq(stale)[k], "Succeeded")]
              \o <<Event("addProfile", id, "Succeeded")>>,
          !.yielded = Append(g.yielded, id)]

\* store.addProfile(id, {...}) and yield [id, profile]
yieldProfile(g, id, info) ==
    [g EXCEPT
       !.data = putProfile(g.data, id,
                   initMetadata(LinkedProfile(g.src, info.roleName, info.accountId))),
       !.events = g.events \o <<Event("addProfile", id, "Succeeded")>>,
       !.yielded = Append(g.yielded, id)]

\* one next() of the generator: runs the for-await loop until it yields a
\* newly created profile, the stream ends, or the stream throws
RECURSIVE advance(_)
advance(g) ==
    IF g.rest = <<>>
    THEN IF streamThrows(g.cat)
         THEN [g EXCEPT !.pc = "failed"]
         ELSE finish(g)
    ELSE LET info == Head(g.rest) IN
         IF info.kind = "account"
         THEN advance([g EXCEPT !.rest = Tail(g.rest),
                                !.accounts = g.accounts \cup {info.accountId}])
         ELSE LET id == LinkedId(g.src, info.roleName, info.accountId)
                  g1 == [g EXCEPT !.rest = Tail(g.rest), !.found = g.found \cup {id}]
              IN  IF alreadyPresent(g.data, id)
                  THEN advance(g1)
                  ELSE yieldProfile(g1, id, info)

\* the generator's fields that live in the run variable
RunFields == {"pc", "src", "ssoProfile", "cat", "rest", "accounts", "found",
              "yielded", "warned", "shown", "deleted", "startData", "prior"}

Resume(g0) ==
    LET g == advance([data |-> data, events |-> <<>>, lastWarned |-> lastWarned] @@ g0) IN
    /\ data' = g.data
    /\ emitted' = g.events
    /\ lastWarned' = g.lastWarned
    /\ run' = [f \in RunFields |-> g[f]]
    /\ prev' = IF g.pc = "done"
               THEN [src |-> g.src, cat |-> g.cat, data |-> g.data, found |-> g.found]
               ELSE IF g.data = data THEN prev ELSE NoPrev
    /\ UNCHANGED <<prevGetProfile, providers, lastSucceeded, currentProfileId, calls, node, cache>>

\* the caller creates the generator for a stored sso profile and asks for
\* the first result
Discover(cat) ==
    /\ Quiet
    /\ ops < MaxOps
    /\ Stored(data, SourceId)
    /\ data[SourceId].type = "sso"
    /\ ops' = ops + 1
    /\ Resume([pc |-> "suspended", src |-> SourceId, ssoProfile |-> data[SourceId],
               cat |-> cat, rest |-> Flatten(cat.accts, 1), accounts |-> {},
               found |-> {}, yielded |-> <<>>, warned |-> FALSE, shown |-> FALSE,
               deleted |-> {}, startData |-> data,
               prior |-> IF prev.src = SourceId /\ prev.cat = cat /\ prev.data = data
                         THEN prev ELSE NoPrev])
    /\ last' = [op |-> "discover", result |-> "ok"]

\* the consumer asks for the next result
NextResult ==
    /\ run.pc = "suspended"
    /\ Resume(run)
    /\ last' = [op |-> "next", result |-> "ok"]
    /\ UNCHANGED ops

\* variant: closing the generator runs the clean-up
ConsumerStopWithCleanup ==
    LET stale == staleIds(data, run.src, run.found) IN
    /\ run.pc = "suspended"
    /\ run' = [run EXCEPT !.pc = "stopped", !.deleted = stale]
    /\ data' = [i \in DOMAIN data \ stale |-> data[i]]
    /\ emitted' = [k \in 1..Cardinality(stale) |->
                      Event("deleteProfile", SetToSeq(stale)[k], "Succeeded")]
    /\ last' = [op |-> "stop", result |-> "ok"]
    /\ prev' = IF stale = {} THEN prev ELSE NoPrev
    /\ UNCHANGED <<prevGetProfile, providers, lastWarned, lastSucceeded, ops,
                   currentProfileId, calls, node, cache>>

\* the consumer stops consuming: the generator is closed at its yield
ConsumerStop ==
    /\ run.pc = "suspended"
    /\ run' = [run EXCEPT !.pc = "stopped"]
    /\ emitted' = <<>>
    /\ last' = [op |-> "stop", result |-> "ok"]
    /\ UNCHANGED <<data, prevGetProfile, providers, lastWarned, prev, lastSucceeded, ops,
                   currentProfileId, calls, node, cache>>

-----------------------------------------------------------------------------
(* The memento a ProfileStore is constructed over is empty or holds what an
   earlier session persisted. *)

WithMetadata(profile, metadata) == [metadata |-> metadata] @@ profile

InitialStores ==
    { <<>>,
      (SourceId :> WithMetadata(SsoPlain, [connectionState |-> "valid"])),
      (SourceId :> WithMetadata(SsoScoped, [connectionState |-> "valid"]))
        @@ (LinkedId(SourceId, "Admin", "111") :>
              WithMetadata(LinkedProfile(SourceId, "Admin", "111"),
                           [connectionState |-> "valid", label |-> "L"]))
        @@ (LinkedId(SourceId, "Admin", "222") :>
              initMetadata(LinkedProfile(SourceId, "Admin", "222")))
        @@ ("profile:p1" :> initMetadata(UnknownProfile("profile"))),
      ("profile:p1" :> initMetadata(LinkedProfile(SourceId, "Admin", "111"))) }

Init ==
    /\ data \in InitialStores
    /\ currentProfileId = None
    /\ calls = NoCalls
    /\ node = None
    /\ cache = None
    /\ prevGetProfile = NoPrevGet
    /\ providers \in ProviderEnumerations
    /\ lastWarned = None
    /\ run = IdleRun
    /\ prev = NoPrev
    /\ lastSucceeded = NoPrevGet
    /\ emitted = <<>>
    /\ last = [op |-> "init"]
    /\ ops = 0

Next ==
    \/ \E id \in Ids : GetProfileOrThrow(id)
    \/ \E id \in Ids, p \in ProfileInputs : AddProfile(id, p)
    \/ \E id \in Ids, p \in ProfileInputs : UpdateProfile(id, p)
    \/ \E id \in Ids, m \in MetadataInputs : UpdateMetadata(id, m)
    \/ \E id \in Ids : DeleteProfile(id)
    \/ LoadIamProfilesIntoStore
    \/ \E cat \in Catalogs : CatalogOk(cat) /\ Discover(cat)
    \/ NextResult
    \/ ConsumerStop

Spec == Init /\ [][Next]_vars

-----------------------------------------------------------------------------
(* Discovery over stores that hold a second sso connection, 'sso:2', with
   linked profiles of its own, and with the current-profile pointer set. *)

OtherSourceId == "sso:2"

FrameStores ==
    { (SourceId :> WithMetadata(SsoPlain, [connectionState |-> "valid"]))
        @@ (OtherSourceId :> WithMetadata(SsoScoped, [connectionState |-> "valid"]))
        @@ (LinkedId(SourceId, "Admin", "111") :>
              initMetadata(LinkedProfile(SourceId, "Admin", "111")))
        @@ (LinkedId(OtherSourceId, "Admin", "111") :>
              WithMetadata(LinkedProfile(OtherSourceId, "Admin", "111"),
                           [connectionState |-> "valid", label |-> "L"]))
        @@ ("profile:p1" :> initMetadata(UnknownProfile("profile"))),
      (SourceId :> WithMetadata(SsoPlain, [connectionState |-> "valid"]))
        @@ (LinkedId(SourceId, "Admin", "222") :>
              initMetadata(LinkedProfile(OtherSourceId, "Admin", "222")))
        @@ ("profile:p1" :> initMetadata(UnknownProfile("profile"))) }

InitFrame ==
    /\ data \in FrameStores
    /\ currentProfileId \in {None, SourceId, LinkedId(SourceId, "Admin", "111")}
    /\ calls = NoCalls
    /\ node = None
    /\ cache = None
    /\ prevGetProfile = NoPrevGet
    /\ providers = <<>>
    /\ lastWarned = None
    /\ run = IdleRun
    /\ prev = NoPrev
    /\ lastSucceeded = NoPrevGet
    /\ emitted = <<>>
    /\ last = [op |-> "init"]
    /\ ops = 0

NextFrame ==
    \/ \E cat \in Catalogs : CatalogOk(cat) /\ Discover(cat)
    \/ NextResult
    \/ ConsumerStop

SpecFrame == InitFrame /\ [][NextFrame]_vars

-----------------------------------------------------------------------------
(* Derived ids.  The id of a linked profile is a pure function of the source
   id and the (roleName, accountId) pair the catalog delivers; a caller
   derives the ids of two pairs for the same source. *)

RoleNames == {"Admin", "Admin1", "Admin-1"}

AccountIds == {"111", "1111", "222", "1-111"}

Pairs == { [roleName |-> r, accountId |-> a] : r \in RoleNames, a \in AccountIds }

DeriveIds ==
    /\ last.op = "pairs"
    /\ last' = [op |-> "deriveIds", first |-> last.first, second |-> last.second,
                firstId |-> LinkedId(SourceId, last.first.roleName, last.first.accountId),
                secondId |-> LinkedId(SourceId, last.second.roleName,
                                      last.second.accountId)]
    /\ UNCHANGED <<data, prevGetProfile, providers, lastWarned, run, prev,
                   lastSucceeded, emitted, ops, currentProfileId, calls, node, cache>>

InitIds ==
    /\ data = <<>>
    /\ currentProfileId = None
    /\ calls = NoCalls
    /\ node = None
    /\ cache = None
    /\ prevGetProfile = NoPrevGet
    /\ providers = <<>>
    /\ lastWarned = None
    /\ run = IdleRun
    /\ prev = NoPrev
    /\ lastSucceeded = NoPrevGet
    /\ emitted = <<>>
    /\ ops = 0
    /\ last \in { [op |-> "pairs", first |-> p, second |-> q] : p \in Pairs, q \in Pairs }

NextIds == DeriveIds

SpecIds == InitIds /\ [][NextIds]_vars

-----------------------------------------------------------------------------
(* The current-profile pointer, kept in the same memento under its own key,
   next to the operations on the profile mapping. *)

PointerInputs == Ids \cup {None}

\* variant: an id that is not stored is ignored
pointerAfterSetStoredOnly(d, current, id) ==
    IF id = None \/ Stored(d, id) THEN id ELSE current

\* memento.update('auth.currentProfileId', id)
pointerAfterSet(d, current, id) == id

SetCurrentProfileId(id) ==
    /\ Quiet
    /\ ops < MaxOps
    /\ ops' = ops + 1
    /\ currentProfileId' = pointerAfterSet(data, currentProfileId, id)
    /\ emitted' = <<>>
    /\ last' = [op |-> "setCurrentProfileId", id |-> id, result |-> "ok"]
    /\ UNCHANGED <<node, cache, data, calls, prevGetProfile, providers, lastWarned, run, prev,
                   lastSucceeded>>

GetCurrentProfileId ==
    /\ Quiet
    /\ ops < MaxOps
    /\ ops' = ops + 1
    /\ emitted' = <<>>
    /\ last' = [op |-> "getCurrentProfileId", result |-> currentProfileId]
    /\ UNCHANGED <<node, cache, data, currentProfileId, calls, prevGetProfile, providers, lastWarned,
                   run, prev, lastSucceeded>>

InitPointer ==
    /\ data \in InitialStores
    /\ currentProfileId = None
    /\ calls = NoCalls
    /\ node = None
    /\ cache = None
    /\ prevGetProfile = NoPrevGet
    /\ providers = <<>>
    /\ lastWarned = None
    /\ run = IdleRun
    /\ prev = NoPrev
    /\ lastSucceeded = NoPrevGet
    /\ emitted = <<>>
    /\ last = [op |-> "init"]
    /\ ops = 0

NextPointer ==
    \/ \E id \in Ids, p \in ProfileInputs : AddProfile(id, p)
    \/ \E id \in Ids, p \in ProfileInputs : UpdateProfile(id, p)
    \/ \E id \in Ids, m \in MetadataInputs : UpdateMetadata(id, m)
    \/ \E id \in Ids : DeleteProfile(id)
    \/ \E id \in PointerInputs : SetCurrentProfileId(id)
    \/ GetCurrentProfileId

SpecPointer == InitPointer /\ [][NextPointer]_vars

-----------------------------------------------------------------------------
(* Store calls whose callers do not wait for each other.  A mutating call
   reads the whole mapping with getData, builds the new mapping and hands it
   to memento.update, whose promise it awaits; the mapping it handed over
   lands in the backing store when the memento applies it, at once or after
   other calls have read.  Each caller makes one call. *)

\* the calls that have landed
Landed == { c \in Callers : calls[c].pc = "done" }

\* addProfile: initMetadata, then putProfile over the mapping read
BeginAdd(c, id, profile) ==
    /\ calls[c].pc = "idle"
    /\ calls' = [calls EXCEPT ![c] =
          [pc |-> "updating", op |-> "addProfile", id |-> id,
           profile |-> initMetadata(profile), snapshot |-> data,
           state |-> putProfile(data, id, initMetadata(profile)),
           readAfter |-> Cardinality(Landed), order |-> 0]]
    /\ UNCHANGED <<data, currentProfileId, prevGetProfile, providers, lastWarned, run,
                   prev, lastSucceeded, emitted, last, ops, node, cache>>

\* deleteProfile: delete the key from the mapping read, which is the caller's
\* own copy of what the backing store holds
BeginDelete(c, id) ==
    /\ calls[c].pc = "idle"
    /\ calls' = [calls EXCEPT ![c] =
          [pc |-> "updating", op |-> "deleteProfile", id |-> id,
           snapshot |-> data, state |-> removeProfile(data, id),
           readAfter |-> Cardinality(Landed), order |-> 0]]
    /\ UNCHANGED <<data, currentProfileId, prevGetProfile, providers, lastWarned, run,
                   prev, lastSucceeded, emitted, last, ops, node, cache>>

\* variant: the change is applied to the mapping stored at that moment
landedDataMerging(d, call) ==
    IF call.op = "addProfile" THEN putProfile(d, call.id, call.profile)
    ELSE removeProfile(d, call.id)

\* memento.update('auth.profiles', state): the whole mapping is replaced
landedData(d, call) == call.state

\* the mapping handed to memento.update lands and the call completes
Land(c) ==
    /\ calls[c].pc = "updating"
    /\ data' = landedData(data, calls[c])
    /\ calls' = [calls EXCEPT ![c].pc = "done", ![c].order = Cardinality(Landed) + 1]
    /\ UNCHANGED <<currentProfileId, prevGetProfile, providers, lastWarned, run, prev,
                   lastSucceeded, emitted, last, ops, node, cache>>

InitRace ==
    /\ data \in InitialStores
    /\ currentProfileId = None
    /\ calls = NoCalls
    /\ node = None
    /\ cache = None
    /\ prevGetProfile = NoPrevGet
    /\ providers = <<>>
    /\ lastWarned = None
    /\ run = IdleRun
    /\ prev = NoPrev
    /\ lastSucceeded = NoPrevGet
    /\ emitted = <<>>
    /\ last = [op |-> "init"]
    /\ ops = 0

NextRace ==
    \/ \E c \in Callers, id \in Ids, p \in ProfileInputs : BeginAdd(c, id, p)
    \/ \E c \in Callers, id \in Ids : BeginDelete(c, id)
    \/ \E c \in Callers : Land(c)

SpecRace == InitRace /\ [][NextRace]_vars

-----------------------------------------------------------------------------
(* Scope predicates.  They are pure functions of a target, which is a list
   of scopes or a profile that may carry one, and a list of scopes; a caller
   evaluates them on its arguments, and hasExactScopes also with the two
   lists exchanged. *)

ScopeNames == {"a", "b", "c"}

ScopeLists == UNION { [1..n -> ScopeNames] : n \in 0..MaxScopeLen }

ArrayTarget(list) == [isArray |-> TRUE, list |-> list]

ProfileTarget(profile) == [isArray |-> FALSE, profile |-> profile]

Targets ==
    { ArrayTarget(l) : l \in ScopeLists }
      \cup { ProfileTarget([scopes |-> l] @@ SsoPlain) : l \in ScopeLists }
      \cup { ProfileTarget(SsoPlain) }

\* Array.prototype.includes
includes(list, s) == \E k \in 1..Len(list) : list[k] = s

\* Array.isArray(target) ? target : (target.scopes ?? [])
targetScopesOf(target) ==
    IF target.isArray THEN target.list
    ELSE IF "scopes" \in DOMAIN target.profile THEN target.profile.scopes
    ELSE <<>>

\* variant: the lengths are not compared
hasExactScopesAnyLength(target, scopes) ==
    \A k \in 1..Len(scopes) : includes(targetScopesOf(target), scopes[k])

hasExactScopes(target, scopes) ==
    /\ Len(scopes) = Len(targetScopesOf(target))
    /\ \A k \in 1..Len(scopes) : includes(targetScopesOf(target), scopes[k])

CallHasExactScopes ==
    /\ last.op = "scopes"
    /\ last' = [op |-> "hasExactScopes", target |-> last.target, scopes |-> last.scopes,
                result |-> hasExactScopes(last.target, last.scopes),
                exchanged |-> hasExactScopes(ArrayTarget(last.scopes),
                                             targetScopesOf(last.target))]
    /\ UNCHANGED <<data, prevGetProfile, providers, lastWarned, run, prev,
                   lastSucceeded, emitted, ops, currentProfileId, calls, node, cache>>

\* variant: a target without scopes passes every test
hasScopesUndefinedPasses(target, scopes) ==
    \A k \in 1..Len(scopes) :
        IF target.isArray THEN includes(target.list, scopes[k])
        ELSE ("scopes" \in DOMAIN target.profile)
               => includes(target.profile.scopes, scopes[k])

\* scopes.every((s) => (Array.isArray(target) ? target : target.scopes)?.includes(s)):
\* undefined?.includes(s) is undefined, which every() takes as false
hasScopes(target, scopes) ==
    \A k \in 1..Len(scopes) :
        IF target.isArray THEN includes(target.list, scopes[k])
        ELSE /\ "scopes" \in DOMAIN target.profile
             /\ includes(target.profile.scopes, scopes[k])

CallHasScopes ==
    /\ last.op = "scopes"
    /\ last' = [op |-> "hasScopes", target |-> last.target, scopes |-> last.scopes,
                result |-> hasScopes(last.target, last.scopes),
                exact |-> hasExactScopes(last.target, last.scopes)]
    /\ UNCHANGED <<data, prevGetProfile, providers, lastWarned, run, prev,
                   lastSucceeded, emitted, ops, currentProfileId, calls, node, cache>>

InitScopes ==
    /\ data = <<>>
    /\ currentProfileId = None
    /\ calls = NoCalls
    /\ node = None
    /\ cache = None
    /\ prevGetProfile = NoPrevGet
    /\ providers = <<>>
    /\ lastWarned = None
    /\ run = IdleRun
    /\ prev = NoPrev
    /\ lastSucceeded = NoPrevGet
    /\ emitted = <<>>
    /\ ops = 0
    /\ last \in { [op |-> "scopes", target |-> t, scopes |-> l] :
                     t \in Targets, l \in ScopeLists }

NextScopes ==
    \/ CallHasExactScopes
    \/ CallHasScopes

SpecScopes == InitScopes /\ [][NextScopes]_vars

-----------------------------------------------------------------------------
(* Connection classification.  The predicates are pure functions of an
   optional connection; a caller evaluates all of them on its argument. *)

\* imported from './sso/constants'
builderIdStartUrl == "https://view.awsapps.com/start"

defaultSsoRegion == "us-east-1"

\* a connection argument that is undefined
NoConnection == [undefined |-> TRUE]

StartUrls == {builderIdStartUrl, "https://x", "https://view.awsapps.com/start/"}

SsoRegions == {defaultSsoRegion, "eu-west-1"}

IamConnectionOf(id) == [type |-> "iam", id |-> id, label |-> id]

\* the profile of createSsoProfile / createBuilderIdProfile as a connection
SsoConnectionOf(startUrl, region, scopes) ==
    [type |-> "sso", id |-> "sso:1", label |-> "L", startUrl |-> startUrl,
     ssoRegion |-> region, scopes |-> scopes]

Connections ==
    {NoConnection}
      \cup { IamConnectionOf(id) : id \in {"profile:p1", "sso:sso:1#Admin-111"} }
      \cup { SsoConnectionOf(u, r, l) : u \in StartUrls, r \in SsoRegions, l \in ScopeLists }

\* conn?.type
typeOf(conn) == IF conn = NoConnection THEN None ELSE conn.type

isIamConnection(conn) == typeOf(conn) = "iam"

\* variant: every sso connection is an Identity Center connection
isSsoConnectionIdcAny(conn, type) ==
    IF typeOf(conn) # "sso" THEN FALSE
    ELSE IF type = "builderId" THEN conn.startUrl = builderIdStartUrl
    ELSE TRUE

RECURSIVE isSsoConnection(_, _)
isSsoConnection(conn, type) ==
    IF typeOf(conn) # "sso" THEN FALSE
    ELSE IF type = "idc" THEN ~isSsoConnection(conn, "builderId")
    ELSE IF type = "builderId" THEN conn.startUrl = builderIdStartUrl
    ELSE TRUE

isAnySsoConnection(conn) == isSsoConnection(conn, "any")

isIdcSsoConnection(conn) == isSsoConnection(conn, "idc")

isBuilderIdConnection(conn) == isSsoConnection(conn, "builderId")

Classify ==
    /\ last.op = "connection"
    /\ last' = [op |-> "classify", conn |-> last.conn,
                iam |-> isIamConnection(last.conn),
                anySso |-> isAnySsoConnection(last.conn),
                idc |-> isIdcSsoConnection(last.conn),
                builderId |-> isBuilderIdConnection(last.conn)]
    /\ UNCHANGED <<data, prevGetProfile, providers, lastWarned, run, prev,
                   lastSucceeded, emitted, ops, currentProfileId, calls, node, cache>>

InitConnections ==
    /\ data = <<>>
    /\ currentProfileId = None
    /\ calls = NoCalls
    /\ node = None
    /\ cache = None
    /\ prevGetProfile = NoPrevGet
    /\ providers = <<>>
    /\ lastWarned = None
    /\ run = IdleRun
    /\ prev = NoPrev
    /\ lastSucceeded = NoPrevGet
    /\ emitted = <<>>
    /\ ops = 0
    /\ last \in { [op |-> "connection", conn |-> c] : c \in Connections }

NextConnections == Classify

SpecConnections == InitConnections /\ [][NextConnections]_vars

-----------------------------------------------------------------------------
(* AppRunnerServiceNode: one explorer node of an App Runner service.  The    *)
(* callback of update() is synchronous and releases the lock before it       *)
(* returns, so an update runs as one step; the listOperations request that   *)
(* updateInfo fires resolves in a later step.                                *)

MaxUpdates == 3

ServiceName == "svc"

\* the label the base class is constructed with
defaultLabel == "App Runner Service"

OperationInProgress == "OPERATION_IN_PROGRESS"

\* ServiceSummary.Status
ServiceStatuses == {"RUNNING", "PAUSED", "CREATE_FAILED", "DELETED", OperationInProgress}

operationStatus ==
    [START_DEPLOYMENT |-> "Deploying...",
     CREATE_SERVICE   |-> "Creating...",
     PAUSE_SERVICE    |-> "Pausing...",
     RESUME_SERVICE   |-> "Resuming...",
     DELETE_SERVICE   |-> "Deleting...",
     UPDATE_SERVICE   |-> "Updating..."]

ServiceOperation == DOMAIN operationStatus

\* how a listOperations request ends: rejected, no operation that is still
\* running, or the running operation's Type
ListOperationsOutcomes == {"rejected", "none"} \cup ServiceOperation

LowerOf ==
    [A |-> "a", B |-> "b", C |-> "c", D |-> "d", E |-> "e", F |-> "f", G |-> "g",
     H |-> "h", I |-> "i", J |-> "j", K |-> "k", L |-> "l", M |-> "m", N |-> "n",
     O |-> "o", P |-> "p", Q |-> "q", R |-> "r", S |-> "s", T |-> "t", U |-> "u",
     V |-> "v", W |-> "w", X |-> "x", Y |-> "y", Z |-> "z"]

charAt(s, k) == SubSeq(s, k, k)

slice(s, k) == SubSeq(s, k, Len(s))

RECURSIVE toLowerCase(_)
toLowerCase(s) ==
    IF s = "" THEN ""
    ELSE (IF charAt(s, 1) \in DOMAIN LowerOf THEN LowerOf[charAt(s, 1)] ELSE charAt(s, 1))
         \o toLowerCase(slice(s, 2))

\* s.replace(/\_/g, ' ')
RECURSIVE replaceUnderscores(_)
replaceUnderscores(s) ==
    IF s = "" THEN ""
    ELSE (IF charAt(s, 1) = "_" THEN " " ELSE charAt(s, 1))
         \o replaceUnderscores(slice(s, 2))

\* the Status as the label shows it: 'Operation in progress', 'Create failed'
formatStatus(status) ==
    charAt(status, 1) \o replaceUnderscores(toLowerCase(slice(status, 2)))

displayStatus(n) ==
    IF n.currentOperation.Type # None
    THEN operationStatus[n.currentOperation.Type]
    ELSE formatStatus(n.info.Status)

setLabel(n) ==
    [n EXCEPT !.label = n.info.ServiceName \o " [" \o displayStatus(n) \o "]"]

\* updateInfo: fire updateOperation() when an operation is in progress and
\* its Type is not known, merge the summary, set the label
updateInfo(n, info) ==
    LET fired == info.Status = OperationInProgress /\ n.currentOperation.Type = None
    IN  setLabel([n EXCEPT !.pending = IF fired THEN @ + 1 ELSE @,
                           !.info = info @@ n.info])

\* variant: an operation that is over stays the current operation
updateStatusKeepingOperation(n, lastLabel) ==
    LET refreshed == IF n.label # lastLabel /\ lastLabel # defaultLabel
                     THEN <<"refresh">> ELSE <<>>
        deleted == IF n.info.Status = "DELETED"
                   THEN <<"parent.deleteNode", "parent.refresh">> ELSE <<>>
    IN  IF n.info.Status = OperationInProgress
        THEN [n EXCEPT !.called = refreshed \o deleted \o <<"parent.startPollingNode">>]
        ELSE IF n.currentOperation.Type # None
        THEN [n EXCEPT !.called = refreshed \o deleted \o <<"parent.stopPollingNode">>]
        ELSE [n EXCEPT !.called = refreshed \o deleted]

\* updateStatus: refresh on a changed label, delete a DELETED node, start
\* polling while an operation is in progress, otherwise clear the current
\* operation (if one is set) and stop polling
updateStatus(n, lastLabel) ==
    LET refreshed == IF n.label # lastLabel /\ lastLabel # defaultLabel
                     THEN <<"refresh">> ELSE <<>>
        deleted == IF n.info.Status = "DELETED"
                   THEN <<"parent.deleteNode", "parent.refresh">> ELSE <<>>
    IN  IF n.info.Status = OperationInProgress
        THEN [n EXCEPT !.called = refreshed \o deleted \o <<"parent.startPollingNode">>]
        ELSE IF n.currentOperation.Type # None
        THEN setLabel([n EXCEPT !.currentOperation = [Id |-> None, Type |-> None],
                                !.called = refreshed \o deleted
                                           \o <<"parent.stopPollingNode">>])
        ELSE [n EXCEPT !.called = refreshed \o deleted]

\* update(info), under the lock
update(n, info) == updateStatus(updateInfo(n, info), n.label)

setOperation(n, info, id, type) ==
    update([n EXCEPT !.currentOperation = [Id |-> id, Type |-> type]], info)

\* the node the constructor has built before it calls update
NewNode(status, operation) ==
    [info |-> [ServiceName |-> ServiceName, Status |-> status],
     currentOperation |-> operation,
     label |-> defaultLabel,
     pending |-> 0,
     called |-> <<>>,
     wasPolling |-> FALSE,
     step |-> "new",
     updates |-> 0]

\* history kept with every step of the node: whether the update before this
\* one called parent.startPollingNode, the step taken, the updates run so far
NodeStep(n, name, updated) ==
    /\ node' = [n EXCEPT !.wasPolling = node.info.Status = OperationInProgress,
                         !.step = name,
                         !.updates = IF updated THEN node.updates + 1 ELSE node.updates]
    /\ UNCHANGED <<data, currentProfileId, calls, prevGetProfile, providers, lastWarned,
                   run, prev, lastSucceeded, emitted, last, ops, cache>>

\* describe(): update with the summary the service returns
Describe(status) ==
    /\ node.updates < MaxUpdates
    /\ NodeStep(update(node, [ServiceName |-> ServiceName, Status |-> status]),
                "describe", TRUE)

Pause(status) ==
    /\ node.updates < MaxUpdates
    /\ NodeStep(setOperation(node, [ServiceName |-> ServiceName, Status |-> status],
                             "op", "PAUSE_SERVICE"), "pause", TRUE)

ResumeService(status) ==
    /\ node.updates < MaxUpdates
    /\ NodeStep(setOperation(node, [ServiceName |-> ServiceName, Status |-> status],
                             "op", "RESUME_SERVICE"), "resume", TRUE)

DeleteService(status) ==
    /\ node.updates < MaxUpdates
    /\ NodeStep(setOperation(node, [ServiceName |-> ServiceName, Status |-> status],
                             "op", "DELETE_SERVICE"), "delete", TRUE)

UpdateService(status) ==
    /\ node.updates < MaxUpdates
    /\ NodeStep(setOperation(node, [ServiceName |-> ServiceName, Status |-> status],
                             "op", "UPDATE_SERVICE"), "updateService", TRUE)

\* deploy(): the operation is set with the summary the node already holds
Deploy ==
    /\ node.updates < MaxUpdates
    /\ NodeStep(setOperation(node, node.info, "op", "START_DEPLOYMENT"), "deploy", TRUE)

\* a listOperations request of updateOperation() ends
ListOperationsEnds(outcome) ==
    /\ node.pending > 0
    /\ IF outcome \in ServiceOperation
       THEN /\ node.updates < MaxUpdates
            /\ NodeStep(setOperation([node EXCEPT !.pending = @ - 1], node.info,
                                     "op", outcome), "listOperations", TRUE)
       ELSE NodeStep([node EXCEPT !.pending = @ - 1, !.called = <<>>],
                     "listOperations:" \o outcome, FALSE)

InitAppRunner ==
    /\ data = <<>>
    /\ currentProfileId = None
    /\ calls = NoCalls
    /\ cache = None
    /\ prevGetProfile = NoPrevGet
    /\ providers = <<>>
    /\ lastWarned = None
    /\ run = IdleRun
    /\ prev = NoPrev
    /\ lastSucceeded = NoPrevGet
    /\ emitted = <<>>
    /\ last = [op |-> "init"]
    /\ ops = 0
    /\ node \in { [update(NewNode(s, [Id |-> None, Type |-> None]),
                         [ServiceName |-> ServiceName, Status |-> s])
                     EXCEPT !.step = "constructor", !.updates = 1] : s \in ServiceStatuses }

NextAppRunner ==
    \/ \E s \in ServiceStatuses : Describe(s)
    \/ \E s \in ServiceStatuses : Pause(s)
    \/ \E s \in ServiceStatuses : ResumeService(s)
    \/ \E s \in ServiceStatuses : DeleteService(s)
    \/ \E s \in ServiceStatuses : UpdateService(s)
    \/ Deploy
    \/ \E o \in ListOperationsOutcomes : ListOperationsEnds(o)

SpecAppRunner == InitAppRunner /\ [][NextAppRunner]_vars

-----------------------------------------------------------------------------
(* StateMachineGraphCache.updateCachedFile for one asset: the URL recorded   *)
(* in the global state under lastDownloadedURLKey and the file at filePath.  *)
(* The download, the directory creation, the write and the recording of the  *)
(* URL are calls into the environment, each of which can fail.               *)

MaxCalls == 3

AssetUrls == {"https://assets/v1.js", "https://assets/v2.js"}

\* the content of the cached file after a complete write of the asset of url
AssetOf(url) == "asset of " \o url

\* a file left behind by a write that failed
PartialFile == "partial"

DownloadOutcomes == {"ok", "failed"}

\* makeDir succeeds or throws an error with a code or without one
MakeDirOutcomes == {"ok", "EEXIST", "EACCES", "error without code"}

\* writeFile succeeds, or fails and leaves the path as it was, or fails and
\* leaves a file at the path
WriteOutcomes == {"ok", "failed", "failed, file left"}

RecordOutcomes == {"ok", "failed"}

NoCall == [url |-> None, attempted |-> FALSE, outcome |-> "none"]

\* writeToLocalStorage: an error of makeDir is fatal only if it has a code
\* other than EEXIST; an error of writeFile is thrown again
writeToLocalStorage(file, url, md, wr) ==
    IF md \in {"EACCES"}
    THEN [file |-> file, thrown |-> "makeDirFailed"]
    ELSE IF wr = "ok" THEN [file |-> AssetOf(url), thrown |-> None]
    ELSE IF wr = "failed, file left" THEN [file |-> PartialFile, thrown |-> "writeFailed"]
    ELSE [file |-> file, thrown |-> "writeFailed"]

\* updateCachedFile(options): the cache after the call and what the call did
updateCachedFile(c, currentURL, dl, md, wr, rec) ==
    LET downloadedUrl == c.downloadedUrl
        cachedFileExists == c.file # None
        written == writeToLocalStorage(c.file, currentURL, md, wr)
    IN  IF downloadedUrl # currentURL \/ ~cachedFileExists
        THEN IF dl = "failed"
             THEN [c EXCEPT !.call = [url |-> currentURL, attempted |-> TRUE,
                                      outcome |-> "downloadFailed"]]
             ELSE IF written.thrown # None
             THEN [c EXCEPT !.file = written.file,
                            !.call = [url |-> currentURL, attempted |-> TRUE,
                                      outcome |-> written.thrown]]
             ELSE IF rec = "failed"
             THEN [c EXCEPT !.file = written.file,
                            !.call = [url |-> currentURL, attempted |-> TRUE,
                                      outcome |-> "recordFailed"]]
             ELSE [c EXCEPT !.file = written.file,
                            !.downloadedUrl = currentURL,
                            !.call = [url |-> currentURL, attempted |-> TRUE,
                                      outcome |-> "ok"]]
        ELSE [c EXCEPT !.call = [url |-> currentURL, attempted |-> FALSE,
                                 outcome |-> "skipped"]]

UpdateCachedFile(currentURL, dl, md, wr, rec) ==
    /\ cache.n < MaxCalls
    /\ cache' = [updateCachedFile(cache, currentURL, dl, md, wr, rec)
                    EXCEPT !.n = cache.n + 1]
    /\ UNCHANGED <<data, currentProfileId, calls, prevGetProfile, providers, lastWarned,
                   run, prev, lastSucceeded, emitted, last, ops, node>>

\* a fresh installation, or an earlier session's recorded URL whose file is
\* in place or is gone from the storage directory
InitCache ==
    /\ data = <<>>
    /\ currentProfileId = None
    /\ calls = NoCalls
    /\ node = None
    /\ prevGetProfile = NoPrevGet
    /\ providers = <<>>
    /\ lastWarned = None
    /\ run = IdleRun
    /\ prev = NoPrev
    /\ lastSucceeded = NoPrevGet
    /\ emitted = <<>>
    /\ last = [op |-> "init"]
    /\ ops = 0
    /\ cache \in { [downloadedUrl |-> None, file |-> None, call |-> NoCall, n |-> 0] }
                 \cup { [downloadedUrl |-> u, file |-> None, call |-> NoCall, n |-> 0] :
                            u \in AssetUrls }
                 \cup { [downloadedUrl |-> u, file |-> AssetOf(u), call |-> NoCall,
                          n |-> 0] : u \in AssetUrls }

NextCache ==
    \E u \in AssetUrls, dl \in DownloadOutcomes, md \in MakeDirOutcomes,
       wr \in WriteOutcomes, rec \in RecordOutcomes :
        UpdateCachedFile(u, dl, md, wr, rec)

SpecCache == InitCache /\ [][NextCache]_vars

-----------------------------------------------------------------------------
(* Properties *)

Range(seq) == { seq[k] : k \in 1..Len(seq) }

\* the ids of the stored iam/linked profiles whose ssoSession is sourceId
LinkedOf(d, sourceId) ==
    { id \in DOMAIN d : isLinked(d[id]) /\ d[id].ssoSession = sourceId }

\* the ids derived from the (account, role) pairs among the given stream events
DerivedIds(sourceId, events) ==
    { LinkedId(sourceId, events[k].roleName, events[k].accountId) :
        k \in { j \in 1..Len(events) : events[j].kind = "role" } }

\* the stream events a run has consumed so far
Consumed(r) ==
    LET all == Flatten(r.cat.accts, 1) IN SubSeq(all, 1, Len(all) - Len(r.rest))

Active == run.pc # "idle"

\* C1: after addProfile(id, p) completes, getProfile(id) is a record whose
\* profile fields equal p and whose metadata is exactly
\* {connectionState: 'unauthenticated'}.
C1_AddThenGet ==
    last.op = "addProfile" =>
        /\ Stored(data, last.id)
        /\ Body(data[last.id]) = last.profile
        /\ data[last.id].metadata = [connectionState |-> "unauthenticated"]

C1_Witness ==
    /\ last.op = "addProfile"
    /\ last.profile.type = "iam"
    /\ Cardinality(DOMAIN data) > 1

\* C2: when a discovery run for source S is consumed to the end, every linked
\* profile of S that was stored and whose id is not derived from a pair of the
\* run's stream is deleted; afterwards every stored linked profile of S has a
\* derived id and every derived id is a key of the store.
C2_StaleCleanup ==
    run.pc = "done" =>
        LET derived == DerivedIds(run.src, Flatten(run.cat.accts, 1)) IN
        /\ \A id \in LinkedOf(run.startData, run.src) \ derived : ~Stored(data, id)
        /\ LinkedOf(data, run.src) \subseteq derived
        /\ \A id \in derived : Stored(data, id)

C2_Witness ==
    /\ run.pc = "done"
    /\ LinkedOf(run.startData, run.src) \ LinkedOf(data, run.src) # {}
    /\ LinkedOf(data, run.src) # {}

\* C3: while a discovery run has not been consumed to the end, and when the
\* consumer stopped it, the run has deleted nothing: every record stored when
\* the run started is still stored, unchanged.
C3_NoCleanupOnEarlyStop ==
    run.pc \in {"suspended", "stopped"} =>
        /\ run.deleted = {}
        /\ \A id \in DOMAIN run.startData :
              Stored(data, id) /\ data[id] = run.startData[id]

C3_Witness ==
    /\ run.pc = "stopped"
    /\ LinkedOf(data, run.src) \ DerivedIds(run.src, Flatten(run.cat.accts, 1)) # {}

\* C4: a fully drained discovery run that repeats the previous fully drained
\* run (same source, same catalog, store as that run left it) derives the same
\* ids, creates nothing, yields nothing and deletes nothing.
C4_Idempotent ==
    (run.pc = "done" /\ run.prior # NoPrev) =>
        /\ run.found = run.prior.found
        /\ run.yielded = <<>>
        /\ run.deleted = {}
        /\ emitted = <<>>
        /\ data = run.prior.data

C4_Witness ==
    /\ run.pc = "done"
    /\ run.prior # NoPrev
    /\ run.found # {}

\* C5: updateProfile(id, p) with p.type different from the stored type fails
\* with the type-mismatch error and leaves the whole mapping unchanged.
C5_TypeMismatch ==
    [][ (/\ last'.op = "updateProfile"
         /\ Stored(data, last'.id)
         /\ data[last'.id].type # last'.profile.type)
        => (last'.result = "TypeMismatch" /\ data' = data) ]_vars

C5_Witness ==
    /\ last.op = "updateProfile"
    /\ last.result = "TypeMismatch"

\* C6 (as stated): no step changes the type of the profile stored under an id
\* that stays in the store.
C6_TypeNeverChanges ==
    [][ \A id \in DOMAIN data \cap DOMAIN data' : data'[id].type = data[id].type ]_vars

\* C6 (amended): every step other than addProfile keeps the type of the
\* profile stored under an id that stays in the store.
C6_TypeKeptExceptAdd ==
    [][ last'.op # "addProfile"
        => \A id \in DOMAIN data \cap DOMAIN data' : data'[id].type = data[id].type ]_vars

C6_Witness ==
    /\ last.op = "updateProfile"
    /\ last.result = "TypeMismatch"
    /\ last.profile.type = "iam"
    /\ data[last.id].type = "sso"

\* every stored iam/linked profile's ssoSession is the id of a stored sso profile
Integrity ==
    \A id \in DOMAIN data :
        (data[id].type = "iam" /\ data[id].subtype = "linked")
        => /\ data[id].ssoSession \in DOMAIN data
           /\ data[data[id].ssoSession].type = "sso"

\* C7 (as stated): in every state every stored iam/linked profile's ssoSession
\* is the id of a stored profile of type sso.
C7_IntegrityAlways == Integrity

\* C7 (amended): when loadIamProfilesIntoStore has completed, every stored
\* iam/linked profile's ssoSession is the id of a stored profile of type sso.
C7_IntegrityAfterSync == last.op = "loadIamProfilesIntoStore" => Integrity

C7_Witness ==
    /\ last.op = "loadIamProfilesIntoStore"
    /\ \E id \in last.deleted : startsWithSso(id)
    /\ LinkedOf(data, SourceId) = {}

\* C8: a record stored when a discovery run starts under an id the run derives
\* is left exactly as it was, is not yielded, and no addProfile is issued for it.
C8_NoOverwrite ==
    Active =>
        \A id \in DerivedIds(run.src, Consumed(run)) \cap DOMAIN run.startData :
            /\ Stored(data, id)
            /\ data[id] = run.startData[id]
            /\ id \notin Range(run.yielded)
            /\ Event("addProfile", id, "Succeeded") \notin Range(emitted)

C8_Witness ==
    /\ run.pc = "done"
    /\ \E id \in DerivedIds(run.src, Consumed(run)) \cap DOMAIN run.startData :
          "label" \in DOMAIN data[id].metadata

SucceededEvents(events) ==
    { k \in 1..Len(events) :
        events[k].action = "getProfile" /\ events[k].result = "Succeeded" }

\* C9: a lookup through getProfileOrThrow that finds the id emits a
\* 'Succeeded' event exactly when (id, connectionState) differs from the pair
\* of the last 'Succeeded' event, and the second of two consecutive
\* getProfileOrThrow calls for the same id emits none.
C9_DedupSucceeded ==
    [][ /\ (/\ last'.op \in {"getProfileOrThrow", "updateProfile", "updateMetadata"}
            /\ Stored(data, last'.id))
           => LET pair == [id |-> last'.id,
                           connectionState |-> data[last'.id].metadata.connectionState]
              IN  /\ Cardinality(SucceededEvents(emitted')) =
                        IF pair # lastSucceeded THEN 1 ELSE 0
                  /\ lastSucceeded' = pair
        /\ (/\ last.op = "getProfileOrThrow" /\ last.result = "ok"
            /\ last'.op = "getProfileOrThrow" /\ last'.id = last.id)
           => emitted' = <<>> ]_vars

C9_Witness ==
    /\ last.op = "getProfileOrThrow"
    /\ last.result = "ok"
    /\ emitted = <<>>
    /\ ops = 2

\* C10: getProfileOrThrow(id) and updateMetadata(id, m) on an id that is not
\* stored fail with ProfileNotFound, emit exactly one event, with result
\* 'Failed', and leave the mapping and the de-dup cache unchanged.
C10_NotFound ==
    [][ (/\ last'.op \in {"getProfileOrThrow", "updateMetadata"}
         /\ ~Stored(data, last'.id))
        => /\ last'.result = "ProfileNotFound"
           /\ emitted' = <<Event("getProfile", last'.id, "Failed")>>
           /\ data' = data
           /\ prevGetProfile' = prevGetProfile ]_vars

C10_Witness ==
    /\ last.op = "updateMetadata"
    /\ last.result = "ProfileNotFound"
    /\ prevGetProfile # NoPrevGet

\* C11: deleteProfile never fails and removes at most the key id: every other
\* record is untouched, an id that is not stored leaves the mapping unchanged,
\* and a second deleteProfile(id) right after the first changes nothing.
C11_DeleteIdempotent ==
    [][ last'.op = "deleteProfile"
        => /\ last'.result = "ok"
           /\ DOMAIN data' = DOMAIN data \ {last'.id}
           /\ \A i \in DOMAIN data' : data'[i] = data[i]
           /\ (last'.id \notin DOMAIN data) => (data' = data)
           /\ (last.op = "deleteProfile" /\ last.id = last'.id) => (data' = data) ]_vars

C11_Witness ==
    /\ last.op = "deleteProfile"
    /\ ~last.existed
    /\ data # <<>>
    /\ ops = 2

\* C12: a profile yielded by discovery for source S, role R and account A is
\* stored under 'sso:' + S + '#' + R + '-' + A with name R-A, type iam,
\* subtype linked, ssoSession S, ssoRoleName R, ssoAccountId A; source 'sso:1'
\* with account '111' and role 'Admin' over a store without linked profiles
\* yields exactly one linked profile, 'sso:sso:1#Admin-111'.
C12_LinkedIdAndFields ==
    Active =>
        /\ \A k \in 1..Len(run.yielded) :
              \E j \in 1..Len(Consumed(run)) :
                 LET e == Consumed(run)[j] IN
                 /\ e.kind = "role"
                 /\ run.yielded[k] = "sso:" \o run.src \o "#" \o e.roleName \o "-" \o e.accountId
                 /\ run.yielded[k] \in DOMAIN data
                 /\ Body(data[run.yielded[k]]) =
                       [name |-> e.roleName \o "-" \o e.accountId, type |-> "iam",
                        subtype |-> "linked", ssoSession |-> run.src,
                        ssoRoleName |-> e.roleName, ssoAccountId |-> e.accountId]
        /\ (/\ run.pc = "done"
            /\ run.src = "sso:1"
            /\ run.cat.accts = <<[accountId |-> "111", roles |-> <<"Admin">>]>>
            /\ DOMAIN run.startData = {"sso:1"})
           => /\ run.yielded = <<"sso:sso:1#Admin-111">>
              /\ DOMAIN data = {"sso:1", "sso:sso:1#Admin-111"}

C12_Witness ==
    /\ run.pc = "done"
    /\ run.yielded = <<"sso:sso:1#Admin-111">>
    /\ DOMAIN run.startData = {"sso:1"}
    /\ run.cat.fail = "none"

\* C16: updateMetadata(id, m) on a stored id succeeds and changes only the
\* metadata of that record: the fields of m override, the other metadata
\* fields keep their value, the profile body and every other record are as
\* before.
C16_UpdateMetadataFrame ==
    [][ (last'.op = "updateMetadata" /\ last'.id \in DOMAIN data)
        => LET id == last'.id
               m == last'.metadata
               old == data[id].metadata
           IN  /\ last'.result = "ok"
               /\ DOMAIN data' = DOMAIN data
               /\ \A i \in DOMAIN data \ {id} : data'[i] = data[i]
               /\ Body(data'[id]) = Body(data[id])
               /\ DOMAIN data'[id].metadata = DOMAIN old \cup DOMAIN m
               /\ \A f \in DOMAIN m : data'[id].metadata[f] = m[f]
               /\ \A f \in DOMAIN old \ DOMAIN m : data'[id].metadata[f] = old[f] ]_vars

C16_Witness ==
    /\ last.op = "updateMetadata"
    /\ last.result = "ok"
    /\ "label" \in DOMAIN data[last.id].metadata
    /\ "label" \notin DOMAIN last.metadata

\* C17: updateProfile(id, p) with p of the stored type stores the shallow
\* merge: every field of p overrides, stored fields absent from p are kept,
\* the metadata is preserved, and no other record changes.
C17_UpdateProfileMerge ==
    [][ (/\ last'.op = "updateProfile"
         /\ last'.id \in DOMAIN data
         /\ data[last'.id].type = last'.profile.type)
        => LET id == last'.id
               p == last'.profile
               old == data[id]
           IN  /\ last'.result = "ok"
               /\ DOMAIN data' = DOMAIN data
               /\ \A i \in DOMAIN data \ {id} : data'[i] = data[i]
               /\ DOMAIN data'[id] = DOMAIN old \cup DOMAIN p
               /\ \A f \in DOMAIN p : data'[id][f] = p[f]
               /\ \A f \in DOMAIN old \ DOMAIN p : data'[id][f] = old[f]
               /\ data'[id].metadata = old.metadata ]_vars

C17_Witness ==
    /\ last.op = "updateProfile"
    /\ last.result = "ok"
    /\ last.profile = UnknownProfile("profile")
    /\ "ssoSession" \in DOMAIN data[last.id]
    /\ "label" \in DOMAIN data[last.id].metadata

\* C18: a run whose listAccounts fails does not fail: once it is no longer
\* suspended or stopped it has completed normally, and every profile it
\* yielded comes from a pair delivered before the failure.
C18_ListAccountsFailureRecovered ==
    (Active /\ run.cat.fail = "listAccounts") =>
        /\ run.pc \in {"suspended", "stopped", "done"}
        /\ Range(run.yielded) \subseteq DerivedIds(run.src, Flatten(run.cat.accts, 1))
        /\ (run.cat.accts = <<>>) => (run.pc = "done" /\ run.yielded = <<>>)

C18_Witness ==
    /\ run.pc = "done"
    /\ run.cat.fail = "listAccounts"
    /\ run.accounts # {}

\* C19 (as stated): no listing failure, of listAccounts or of
\* listAccountRoles, makes the discovery run raise an error to its consumer.
C19_NoListingFailureAborts == Active => run.pc # "failed"

C14_SyncPostcondition ==
    [][ last'.op = "loadIamProfilesIntoStore"
        => LET P == providers IN
           /\ \A i \in DOMAIN data' :
                 (data'[i].type = "iam" /\ data'[i].subtype = "unknown") => i \in DOMAIN P
           /\ \A i \in DOMAIN P : ~startsWithSso(i) => i \in DOMAIN data'
           /\ \A i \in last'.added :
                 /\ i \in DOMAIN data'
                 /\ data'[i] = [type |-> "iam", subtype |-> "unknown", name |-> P[i],
                                metadata |-> [connectionState |-> "unauthenticated"]]
           /\ \A i \in DOMAIN data :
                 (i \in DOMAIN P \/ data[i].type = "sso")
                 => (i \in DOMAIN data' /\ data'[i] = data[i]) ]_vars

\* C14 (amended): as above, with (d) restricted to the records the sync has
\* no reason to touch: sso profiles, linked profiles whose ssoSession names a
\* stored sso profile, and other iam profiles whose id is in P.
C14_SyncPostconditionKeptRecords ==
    [][ last'.op = "loadIamProfilesIntoStore"
        => LET P == providers IN
           /\ \A i \in DOMAIN data' :
                 (data'[i].type = "iam" /\ data'[i].subtype = "unknown") => i \in DOMAIN P
           /\ \A i \in DOMAIN P : ~startsWithSso(i) => i \in DOMAIN data'
           /\ \A i \in last'.added :
                 /\ i \in DOMAIN data'
                 /\ data'[i] = [type |-> "iam", subtype |-> "unknown", name |-> P[i],
                                metadata |-> [connectionState |-> "unauthenticated"]]
           /\ \A i \in DOMAIN data :
                 (\/ data[i].type = "sso"
                  \/ /\ data[i].type = "iam"
                     /\ data[i].subtype = "linked"
                     /\ data[i].ssoSession \in DOMAIN data
                     /\ data[data[i].ssoSession].type = "sso"
                  \/ /\ data[i].type = "iam"
                     /\ data[i].subtype # "linked"
                     /\ i \in DOMAIN P)
                 => (i \in DOMAIN data' /\ data'[i] = data[i]) ]_vars

C14_Witness ==
    /\ last.op = "loadIamProfilesIntoStore"
    /\ last.added # {}
    /\ \E i \in last.deleted : i \notin last.removed
    /\ \E i \in DOMAIN data : data[i].type = "sso"

C21_HasScopesSubset ==
    last.op = "hasScopes" =>
        LET s == last.scopes IN
        /\ last.target.isArray => (last.result <=> Range(s) \subseteq Range(last.target.list))
        /\ (~last.target.isArray /\ "scopes" \in DOMAIN last.target.profile)
           => (last.result <=> Range(s) \subseteq Range(last.target.profile.scopes))
        /\ (~last.target.isArray /\ "scopes" \notin DOMAIN last.target.profile)
           => (last.result <=> s = <<>>)
        /\ last.exact => last.result

C21_Witness ==
    /\ last.op = "hasScopes"
    /\ ~last.target.isArray
    /\ "scopes" \notin DOMAIN last.target.profile
    /\ last.scopes = <<"a">>
    /\ ~last.result

\* C22: for every connection exactly one of isIamConnection,
\* isIdcSsoConnection and isBuilderIdConnection holds; isBuilderIdConnection
\* holds iff the type is sso and startUrl is the Builder ID start URL;
\* isIdcSsoConnection iff the type is sso and it is not Builder ID;
\* isAnySsoConnection iff one of the two sso kinds holds; for an undefined
\* connection all four are false.
C22_ClassificationPartition ==
    last.op = "classify" =>
        LET c == last.conn
            count == Cardinality({ k \in {"iam", "idc", "builderId"} : last[k] })
        IN  IF "type" \in DOMAIN c
            THEN /\ count = 1
                 /\ last.iam <=> c.type = "iam"
                 /\ last.builderId
                      <=> (c.type = "sso" /\ c.startUrl = "https://view.awsapps.com/start")
                 /\ last.idc
                      <=> (c.type = "sso" /\ c.startUrl # "https://view.awsapps.com/start")
                 /\ last.anySso <=> (last.idc \/ last.builderId)
            ELSE ~last.iam /\ ~last.anySso /\ ~last.idc /\ ~last.builderId

C22_Witness ==
    /\ last.op = "classify"
    /\ "type" \in DOMAIN last.conn
    /\ last.conn.type = "sso"
    /\ last.builderId
    /\ ~last.idc
    /\ last.anySso

\* C23: the pointer is none until it is set; setCurrentProfileId(id) sets it
\* to id whether or not id is stored and leaves the profile mapping alone;
\* getCurrentProfileId returns it and changes nothing; addProfile,
\* updateProfile, updateMetadata and deleteProfile never change it, not even
\* deleteProfile of the id it names. Hence getCurrentProfileId returns the
\* id of the last setCurrentProfileId, or none.
C23_PointerIndependent ==
    [][ /\ (ops = 0) => (currentProfileId = None)
        /\ (last'.op = "setCurrentProfileId")
           => (currentProfileId' = last'.id /\ last'.result = "ok" /\ data' = data)
        /\ (last'.op = "getCurrentProfileId")
           => (/\ last'.result = currentProfileId
               /\ currentProfileId' = currentProfileId
               /\ data' = data)
        /\ (last'.op \in {"addProfile", "updateProfile", "updateMetadata", "deleteProfile"})
           => (currentProfileId' = currentProfileId) ]_vars

C23_Witness ==
    /\ last.op = "deleteProfile"
    /\ last.existed
    /\ currentProfileId = last.id
    /\ currentProfileId \notin DOMAIN data

\* C24 (as stated): a discovery run deletes a stored linked profile only when
\* it enumerated the whole catalog without a listing failure and the catalog
\* does not contain the profile's role; when listAccounts fails, at the start
\* or after some accounts, the run deletes nothing.
C24_DeleteOnlyAfterFullEnumeration ==
    (Active /\ run.deleted # {}) =>
        /\ run.pc = "done"
        /\ run.cat.fail = "none"
        /\ run.deleted \cap DerivedIds(run.src, Flatten(run.cat.accts, 1)) = {}

\* C25: within one discovery run every deletion comes after the last pair of
\* the stream was consumed: the step that deletes has drained the stream,
\* completes the run and adds nothing after a deletion, and a run that has
\* deleted something is never resumed, so it adds and yields nothing more.
C25_DeletionsLast ==
    [][ /\ (last'.op \in {"discover", "next"} /\ run'.deleted # {})
           => /\ run'.pc = "done"
              /\ run'.rest = <<>>
              /\ \A j, k \in 1..Len(emitted') :
                    (emitted'[j].action = "deleteProfile" /\ emitted'[k].action = "addProfile")
                    => k < j
              /\ \A k \in 1..Len(emitted') :
                    emitted'[k].action = "addProfile" => emitted'[k].id \notin run'.deleted
        /\ (last'.op = "next") => (run.pc = "suspended" /\ run.deleted = {}) ]_vars

C25_Witness ==
    /\ run.pc = "done"
    /\ run.deleted # {}
    /\ run.yielded # <<>>

\* C26: within one run, every derived id that was not stored when the run
\* started is yielded exactly once however often the catalog delivers its
\* pair, ids stored at the start are never yielded, and while the run is
\* suspended at a yield every id it yielded is stored as a linked profile.
C26_OneRecordPerPair ==
    Active =>
        /\ \A id \in DerivedIds(run.src, Consumed(run)) :
              Cardinality({ k \in 1..Len(run.yielded) : run.yielded[k] = id })
                = IF id \in DOMAIN run.startData THEN 0 ELSE 1
        /\ run.pc = "suspended"
           => \A k \in 1..Len(run.yielded) :
                 /\ run.yielded[k] \in DOMAIN data
                 /\ data[run.yielded[k]].type = "iam"
                 /\ data[run.yielded[k]].subtype = "linked"

C26_Witness ==
    /\ run.pc = "done"
    /\ run.cat.accts = <<[accountId |-> "111", roles |-> <<"Admin", "Admin">>]>>
    /\ run.yielded = <<"sso:sso:1#Admin-111">>

C29_DeleteEventOnlyIfStored ==
    [][ last'.op = "deleteProfile"
        => IF last'.id \in DOMAIN data
           THEN \E k \in 1..Len(emitted') :
                   emitted'[k].action = "deleteProfile" /\ emitted'[k].id = last'.id
           ELSE emitted' = <<>> ]_vars

\* C30: addProfile(id, p) on a stored id succeeds and replaces the record:
\* the fields are exactly those of p, the metadata is exactly
\* {connectionState: 'unauthenticated'}, and no other record changes.
C30_AddReplaces ==
    [][ (last'.op = "addProfile" /\ last'.id \in DOMAIN data)
        => LET id == last'.id
               p == last'.profile
           IN  /\ last'.result = "ok"
               /\ DOMAIN data' = DOMAIN data
               /\ \A i \in DOMAIN data \ {id} : data'[i] = data[i]
               /\ DOMAIN data'[id] = DOMAIN p \cup {"metadata"}
               /\ \A f \in DOMAIN p : data'[id][f] = p[f]
               /\ data'[id].metadata = [connectionState |-> "unauthenticated"] ]_vars

C30_Witness ==
    /\ last.op = "addProfile"
    /\ last.existed
    /\ "label" \in DOMAIN last.oldMetadata
    /\ last.oldMetadata.connectionState = "valid"
    /\ last.profile.type = "sso"
    /\ data[last.id].metadata = [connectionState |-> "unauthenticated"]

\* C27: with two store calls on different ids both completed: if both read
\* the mapping before either's write landed, the record under the id of the
\* call that landed first is as it was read (its change is lost) while the
\* later call's change is in the store; if the second call read after the
\* first had landed, both changes are in the store.
C27_LostUpdateOnlyWhenInterleaved ==
    (/\ \A c \in Callers : calls[c].pc = "done"
     /\ calls[1].id # calls[2].id)
    => LET first == CHOOSE c \in Callers : calls[c].order = 1
           second == CHOOSE c \in Callers : calls[c].order = 2
           applied(c) ==
               IF calls[c].op = "addProfile"
               THEN calls[c].id \in DOMAIN data /\ data[calls[c].id] = calls[c].profile
               ELSE calls[c].id \notin DOMAIN data
           asRead(c) ==
               IF calls[c].id \in DOMAIN calls[c].snapshot
               THEN /\ calls[c].id \in DOMAIN data
                    /\ data[calls[c].id] = calls[c].snapshot[calls[c].id]
               ELSE calls[c].id \notin DOMAIN data
       IN  /\ applied(second)
           /\ (calls[first].readAfter = 0 /\ calls[second].readAfter = 0) => asRead(first)
           /\ (calls[second].readAfter = 1) => applied(first)

C27_Witness ==
    /\ \A c \in Callers : calls[c].pc = "done" /\ calls[c].readAfter = 0
    /\ calls[1].order = 1
    /\ calls[1].op = "addProfile"
    /\ calls[1].id = "profile:p1"
    /\ calls[2].op = "deleteProfile"
    /\ calls[2].id = "sso:1"
    /\ data = <<>>

\* C31: a step of a discovery run for source S leaves every record that is
\* not a linked profile of S stored and unchanged, modifies no record at
\* all, adds only linked profiles whose ssoSession is S, and leaves the
\* current-profile pointer as it was.
C31_DiscoveryFrame ==
    [][ last'.op \in {"discover", "next", "stop"}
        => LET S == run'.src
               own(p) == p.type = "iam" /\ p.subtype = "linked" /\ p.ssoSession = S
           IN  /\ \A id \in DOMAIN data : own(data[id]) \/ id \in DOMAIN data'
               /\ \A id \in DOMAIN data \cap DOMAIN data' : data'[id] = data[id]
               /\ \A id \in DOMAIN data' \ DOMAIN data : own(data'[id])
               /\ currentProfileId' = currentProfileId ]_vars

C31_Witness ==
    /\ run.pc = "done"
    /\ run.deleted # {}
    /\ run.yielded # <<>>
    /\ currentProfileId \in run.deleted
    /\ \E id \in DOMAIN data :
          data[id].type = "iam" /\ data[id].subtype = "linked" /\ data[id].ssoSession # run.src

\* C32 (as stated): for a fixed source id, two different (roleName,
\* accountId) pairs never derive the same linked-profile id.
C32_DerivedIdInjective ==
    (last.op = "deriveIds" /\ last.first # last.second) => last.firstId # last.secondId

\* C32 (amended): for a fixed source id, two different (roleName, accountId)
\* pairs whose account ids contain no '-' never derive the same
\* linked-profile id.
C32_DerivedIdInjectiveNoHyphen ==
    LET hyphenFree(a) == \A k \in 1..Len(a) : SubSeq(a, k, k) # "-" IN
    (/\ last.op = "deriveIds"
     /\ last.first # last.second
     /\ hyphenFree(last.first.accountId)
     /\ hyphenFree(last.second.accountId))
    => last.firstId # last.secondId

C32_Witness ==
    /\ last.op = "deriveIds"
    /\ last.first = [roleName |-> "Admin-1", accountId |-> "111"]
    /\ last.second = [roleName |-> "Admin1", accountId |-> "111"]
    /\ last.firstId = "sso:sso:1#Admin-1-111"
    /\ last.secondId = "sso:sso:1#Admin1-111"

\* C33: updateProfile(id, p) on an id that is not stored fails with
\* ProfileNotFound and leaves the mapping unchanged.
C33_UpdateAbsentFails ==
    [][ (last'.op = "updateProfile" /\ last'.id \notin DOMAIN data)
        => (last'.result = "ProfileNotFound" /\ data' = data) ]_vars

C33_Witness ==
    /\ last.op = "updateProfile"
    /\ last.result = "ProfileNotFound"
    /\ last.id \notin DOMAIN data
    /\ data # <<>>

\* C34 (as stated): every stored iam profile with subtype 'unknown' has none
\* of the fields ssoSession, ssoRoleName, ssoAccountId, and every stored iam
\* profile with subtype 'linked' has all three.
C34_WellFormedVariants ==
    \A id \in DOMAIN data :
        LET p == data[id]
            link == {"ssoSession", "ssoRoleName", "ssoAccountId"}
        IN  p.type = "iam" =>
              /\ p.subtype = "unknown" => DOMAIN p \cap link = {}
              /\ p.subtype = "linked" => link \subseteq DOMAIN p

\* C35: after every update of the AppRunnerServiceNode, currentOperation.Type is
\* defined only if the Status is OPERATION_IN_PROGRESS, and the label shows the
\* operation text exactly when Type is defined and the formatted Status otherwise
C35_OperationOnlyInProgress ==
    LET type == node.currentOperation.Type
        text == [START_DEPLOYMENT |-> "Deploying...", CREATE_SERVICE |-> "Creating...",
                 PAUSE_SERVICE |-> "Pausing...", RESUME_SERVICE |-> "Resuming...",
                 DELETE_SERVICE |-> "Deleting...", UPDATE_SERVICE |-> "Updating..."]
        formatted == [RUNNING |-> "Running", PAUSED |-> "Paused",
                      CREATE_FAILED |-> "Create failed", DELETED |-> "Deleted",
                      OPERATION_IN_PROGRESS |-> "Operation in progress",
                      DELETE_FAILED |-> "Delete failed"]
    IN  /\ type # None => node.info.Status = "OPERATION_IN_PROGRESS"
        /\ type # None => node.label = "svc [" \o text[type] \o "]"
        /\ type = None => node.label = "svc [" \o formatted[node.info.Status] \o "]"

\* an operation started from the node is shown while it is in progress, after an
\* earlier operation was cleared by the update that observed another Status
C35_Witness ==
    /\ node.step = "pause"
    /\ node.wasPolling = FALSE
    /\ node.currentOperation.Type = "PAUSE_SERVICE"
    /\ node.info.Status = "OPERATION_IN_PROGRESS"
    /\ node.label = "svc [Pausing...]"
    /\ "refresh" \in Range(node.called)
    /\ node.updates = 3

\* C36: every update that observes OPERATION_IN_PROGRESS calls
\* parent.startPollingNode; the next update after one that started polling, if it
\* observes another Status, calls parent.stopPollingNode, whether or not the
\* operation's Type was ever set; an update observing DELETED calls
\* parent.deleteNode
C36_PollingProtocol ==
    [][ node'.updates = node.updates + 1 =>
          /\ node'.info.Status = "OPERATION_IN_PROGRESS"
                => "parent.startPollingNode" \in Range(node'.called)
          /\ ("parent.startPollingNode" \in Range(node.called)
              /\ node.info.Status = "OPERATION_IN_PROGRESS"
              /\ node'.info.Status # "OPERATION_IN_PROGRESS")
                => "parent.stopPollingNode" \in Range(node'.called)
          /\ node'.info.Status = "DELETED"
                => "parent.deleteNode" \in Range(node'.called) ]_vars

\* C37: updateCachedFile downloads iff the recorded URL differs from the current
\* URL or the cached file does not exist; the recorded URL becomes the current URL
\* only after the download and the write succeeded; after a failed download or
\* write the recorded URL is unchanged and the next call for that URL downloads
\* again
C37_RetryAfterFailure ==
    [][ cache'.n = cache.n + 1 =>
          /\ cache'.call.attempted
                <=> (cache.downloadedUrl # cache'.call.url \/ cache.file = None)
          /\ cache'.downloadedUrl # cache.downloadedUrl
                => (cache'.call.outcome = "ok" /\ cache'.downloadedUrl = cache'.call.url)
          /\ cache'.call.outcome \in {"downloadFailed", "makeDirFailed", "writeFailed"}
                => cache'.downloadedUrl = cache.downloadedUrl
          /\ (cache.call.outcome \in {"downloadFailed", "makeDirFailed", "writeFailed"}
              /\ cache'.call.url = cache.call.url)
                => cache'.call.attempted ]_vars

====
